---- MODULE Spec2Model ----
(***************************************************************************)
(* nifcloud_nas_exporter: the NAS collector (collector/nas.go) and the     *)
(* part of main.go that decides how many collection passes run at once.    *)
(*                                                                         *)
(* A collection pass is one call of NASCollector.Collect: it starts one    *)
(* goroutine per metric, each of them runs collect -> scrape and sends its *)
(* samples on the pass's output channel, and Collect returns after the     *)
(* wait group has counted every goroutine.                                 *)
(***************************************************************************)
EXTENDS Integers, Sequences, FiniteSets, Bags, TLC

(***************************************************************************)
(* Bounds of the model.                                                    *)
(***************************************************************************)
\* how many entries of the package's metric list the collector is built with
NumMetrics == 2
\* the longest list of data points the vendor API answers with
MaxPoints == 3

(***************************************************************************)
(* Package constants and variables of collector/nas.go.                    *)
(***************************************************************************)
namespace == "nifcloud_nas"

\* prometheus.BuildFQName: the non-empty parts joined by "_"
BuildFQName(ns, subsystem, name) ==
    IF subsystem = "" THEN ns \o "_" \o name
    ELSE ns \o "_" \o subsystem \o "_" \o name

scrapeDurationDesc == BuildFQName(namespace, "scrape", "collector_duration_seconds")
scrapeSuccessDesc == BuildFQName(namespace, "scrape", "collector_success")

\* type Metric struct { Name string; Desc *prometheus.Desc }
Metric(name, fq) == [Name |-> name, Desc |-> BuildFQName(namespace, "", fq)]

\* var metrics = []Metric{...}: the fixed list of the eleven metrics
metrics ==
    << Metric("FreeStorageSpace", "free_storage_space"),
       Metric("UsedStorageSpace", "used_storage_space"),
       Metric("ReadIOPS", "read_iops"),
       Metric("WriteIOPS", "write_iops"),
       Metric("ReadThroughput", "read_throughput"),
       Metric("WriteThroughput", "write_throughput"),
       Metric("ActiveConnections", "active_connections"),
       Metric("GlobalReadTraffic", "global_read_traffic"),
       Metric("PrivateReadTraffic", "private_read_traffic"),
       Metric("GlobalWriteTraffic", "global_write_traffic"),
       Metric("PrivateWriteTraffic", "private_write_traffic") >>

(***************************************************************************)
(* The vendor API's answers.  A data point carries two strings, Timestamp  *)
(* and Sum; scrape parses the first with time.Parse(time.RFC3339, .) and   *)
(* the second with strconv.ParseFloat(., 64).                              *)
(***************************************************************************)
Nil == "nil"

\* a parsed value and no error, or an error
Parsed(v) == [val |-> v, err |-> Nil]
ParseError(msg) == [val |-> 0, err |-> msg]

\* The timestamp strings the model's vendor answers with.
TimestampStrings ==
    { "0000-06-01T00:00:00Z",        \* well-formed, before time.Time's zero value
      "2020-01-01T00:00:00Z",
      "2020-01-01T00:01:00Z",
      "2020-01-01T09:01:00+09:00",   \* the same instant as the one above
      "2020-01-01T00:02:00Z",
      "2020-01-01 00:03:00" }        \* timestampLayout, not RFC3339: malformed

\* time.Parse(time.RFC3339, s): the instant s denotes, in minutes since
\* 0001-01-01T00:00:00Z (the zero value of time.Time), or an error.
ParseTime(s) ==
    CASE s = "0000-06-01T00:00:00Z" -> Parsed(-308160)
      [] s = "2020-01-01T00:00:00Z" -> Parsed(1061890560)
      [] s = "2020-01-01T00:01:00Z" -> Parsed(1061890561)
      [] s = "2020-01-01T09:01:00+09:00" -> Parsed(1061890561)
      [] s = "2020-01-01T00:02:00Z" -> Parsed(1061890562)
      [] OTHER -> ParseError("parsing time")

\* new(time.Time): the zero value, 0001-01-01T00:00:00Z
ZeroTime == 0

\* Mutant: an equal instant counts as before.
NotAfter(t, u) == t <= u

\* time.Time.Before
Before(t, u) == t < u

\* The sum strings the model's vendor answers with.
SumStrings == { "10", "2e1", "1O" }

\* strconv.ParseFloat(s, 64): the number s denotes, or an error.
ParseFloat(s) ==
    CASE s = "10" -> Parsed(10)
      [] s = "2e1" -> Parsed(20)
      [] OTHER -> ParseError("invalid syntax")

\* nas.Datapoint, the two fields scrape reads
Datapoint(ts, sum) == [Timestamp |-> ts, Sum |-> sum]

Datapoints == { Datapoint(ts, sum) : ts \in TimestampStrings, sum \in SumStrings }

SeqsUpTo(S, k) == UNION { [1..j -> S] : j \in 0..k }

\* What one vendor request of scrape comes to: request.Build fails,
\* queryutil.Parse fails, request.Send fails, or a response arrives.
Failed(kind) == [kind |-> kind, Datapoints |-> << >>]
Response(dps) == [kind |-> "Response", Datapoints |-> dps]
NoOutcome == Failed("None")
\* the failures before the request is sent: request.Build, queryutil.Parse
BuildFailures == { Failed("BuildError"), Failed("EncodeError") }
\* the failure of request.Send
SendFailures == { Failed("SendError") }

(***************************************************************************)
(* scrape, up to its send on the channel.                                  *)
(***************************************************************************)
\* Mutant: the empty response is not told apart.
NoDatapointsUnchecked(dps) == FALSE

\* len(datapoints) == 0
NoDatapoints(dps) == Len(dps) = 0

\* Mutant: the loop parses the sum of every data point before it looks at
\* the timestamp's order.
RECURSIVE ScanParsingEverySum(_, _, _, _)
ScanParsingEverySum(dps, i, latest, latestVal) ==
    IF i > Len(dps) THEN [err |-> Nil, latestVal |-> latestVal]
    ELSE LET timestamp == ParseTime(dps[i].Timestamp)
             sum == ParseFloat(dps[i].Sum) IN
         IF timestamp.err # Nil
         THEN [err |-> "could not parse timestamp", latestVal |-> latestVal]
         ELSE IF sum.err # Nil
         THEN [err |-> "could not parse sum", latestVal |-> sum.val]
         ELSE IF timestamp.val < latest
         THEN ScanParsingEverySum(dps, i + 1, latest, latestVal)
         ELSE ScanParsingEverySum(dps, i + 1, timestamp.val, sum.val)

\* for _, dp := range datapoints { ... }, from data point i on, with the
\* loop's variables latest and latestVal
RECURSIVE ScanDatapoints(_, _, _, _)
ScanDatapoints(dps, i, latest, latestVal) ==
    IF i > Len(dps) THEN [err |-> Nil, latestVal |-> latestVal]
    ELSE LET timestamp == ParseTime(dps[i].Timestamp) IN
         IF timestamp.err # Nil
         THEN [err |-> "could not parse timestamp", latestVal |-> latestVal]
         ELSE IF Before(timestamp.val, latest)
         THEN ScanDatapoints(dps, i + 1, latest, latestVal)
         ELSE LET sum == ParseFloat(dps[i].Sum) IN
              IF sum.err # Nil
              THEN [err |-> "could not parse sum", latestVal |-> sum.val]
              ELSE ScanDatapoints(dps, i + 1, timestamp.val, sum.val)

\* scrape's result for one outcome of the vendor request: the error it
\* returns (Nil for none) and the value it sends when there is none
scrapeResult(outcome) ==
    CASE outcome.kind = "BuildError" -> [err |-> "failed building request", latestVal |-> 0]
      [] outcome.kind = "EncodeError" -> [err |-> "failed encoding request", latestVal |-> 0]
      [] outcome.kind = "SendError" -> [err |-> "send failed", latestVal |-> 0]
      [] OTHER ->
           IF NoDatapoints(outcome.Datapoints)
           THEN [err |-> "fetched no datapoints", latestVal |-> 0]
           ELSE ScanDatapoints(outcome.Datapoints, 1, ZeroTime, 0)

(***************************************************************************)
(* State.                                                                  *)
(***************************************************************************)
VARIABLES
    n,            \* the NASCollector: metrics, nasInstanceIdentifier, region
    maxRequests,  \* main.go's web.max-requests: passes in flight at once
    vendor,       \* which vendor the requests go to (see Outcomes)
    collectPc,    \* per pass: where Collect is
    next,         \* per pass: the index of Collect's loop over n.metrics
    wg,           \* per pass: the wait group's counter
    taskPc,       \* per pass and metric name: where the goroutine is
    resp,         \* per pass and metric name: the outcome of its request
    ch            \* per pass: the bag of samples received from the channel

vars == << n, maxRequests, vendor, collectPc, next, wg, taskPc, resp, ch >>

\* The passes a state holds: two, so that passes can overlap and any two
\* passes can be compared.
Passes == {1, 2}

\* The metric names of a metric list
Names(ms) == { ms[i].Name : i \in 1..Len(ms) }

\* NewNASCollector
NewNASCollector(nasInstanceIdentifier, region, k) ==
    [metrics |-> SubSeq(metrics, 1, k),
     nasInstanceIdentifier |-> nasInstanceIdentifier,
     region |-> region]

\* The samples: prometheus.MustNewConstMetric(desc, GaugeValue, value, labels...)
MustNewConstMetric(desc, value, labels) ==
    [desc |-> desc, value |-> value, labels |-> labels]

Idle(names) ==
    /\ collectPc = [p \in Passes |-> "idle"]
    /\ next = [p \in Passes |-> 1]
    /\ wg = [p \in Passes |-> 0]
    /\ taskPc = [p \in Passes |-> [m \in names |-> "idle"]]
    /\ resp = [p \in Passes |-> [m \in names |-> NoOutcome]]
    /\ ch = [p \in Passes |-> EmptyBag]

\* The answers of the pass-level specifications: a failed request.Send, every
\* kind of failing response, and two responses whose latest values differ.
PassOutcomes ==
    SendFailures \cup
    { Response(<< >>),
      Response(<< Datapoint("2020-01-01 00:03:00", "10") >>),
      Response(<< Datapoint("2020-01-01T00:00:00Z", "1O") >>),
      Response(<< Datapoint("2020-01-01T00:01:00Z", "10") >>),
      Response(<< Datapoint("2020-01-01T00:02:00Z", "2e1"),
                  Datapoint("2020-01-01T00:01:00Z", "10") >>) }

\* The answers of the overlapping passes: one failure and one success.
PairOutcomes ==
    { Response(<< >>),
      Response(<< Datapoint("2020-01-01T00:01:00Z", "10") >>) }

\* The answers of scrape's own specification: a failed request.Send, or any
\* list of up to MaxPoints data points.
ScrapeOutcomes ==
    SendFailures \cup { Response(dps) : dps \in SeqsUpTo(Datapoints, MaxPoints) }

\* What request.Send to vendor v can return
Outcomes(v) ==
    CASE v = "every failure" -> PassOutcomes
      [] v = "data or none" -> PairOutcomes
      [] v = "any response" -> ScrapeOutcomes

\* What building and encoding a request for vendor v can come to: a failure
\* of request.Build or queryutil.Parse, or (NoOutcome) a request to send
Built(v) ==
    CASE v = "data or none" -> { NoOutcome }
      [] OTHER -> BuildFailures \cup { NoOutcome }

\* One pass at a time, every kind of outcome.
Init ==
    /\ n = NewNASCollector("nas01", "jp-east-1", NumMetrics)
    /\ maxRequests = 1
    /\ vendor = "every failure"
    /\ Idle(Names(n.metrics))

(***************************************************************************)
(* Collect.                                                                *)
(***************************************************************************)
InFlight == { p \in Passes : collectPc[p] # "idle" }

\* Mutant: the wait group counts one goroutine too few.
WgAddTooFew == Len(n.metrics) - 1

\* Mutant: the wait group counts one goroutine too many.
WgAddTooMany == Len(n.metrics) + 1

\* wg.Add(len(n.metrics))
WgAddCount == Len(n.metrics)

\* The registry calls Collect: wg := sync.WaitGroup{}; wg.Add(len(n.metrics))
CollectStart(p) ==
    /\ collectPc[p] = "idle"
    /\ Cardinality(InFlight) < maxRequests
    /\ wg' = [wg EXCEPT ![p] = WgAddCount]
    /\ next' = [next EXCEPT ![p] = 1]
    /\ collectPc' = [collectPc EXCEPT ![p] = IF Len(n.metrics) = 0 THEN "wait" ELSE "spawn"]
    /\ UNCHANGED << n, maxRequests, vendor, taskPc, resp, ch >>

\* for _, m := range n.metrics { go func(metric Metric) {...}(m) }: one turn
Spawn(p) ==
    /\ collectPc[p] = "spawn"
    /\ taskPc' = [taskPc EXCEPT ![p][n.metrics[next[p]].Name] = "scrape"]
    /\ next' = [next EXCEPT ![p] = @ + 1]
    /\ collectPc' = [collectPc EXCEPT ![p] = IF next[p] = Len(n.metrics) THEN "wait" ELSE "spawn"]
    /\ UNCHANGED << n, maxRequests, vendor, wg, resp, ch >>

\* Mutant: Collect has a pointer receiver and consumes the metric list.
ReceiverConsumed(c) == [c EXCEPT !.metrics = SubSeq(@, 1, Len(@) - 1)]

\* func (n NASCollector) Collect: the receiver is a copy, so the collector
\* the registry holds is, after the call, the one it was before
ReceiverAfter(c) == c

\* wg.Wait() returns, and Collect with it
WgWait(p) ==
    /\ collectPc[p] = "wait"
    /\ wg[p] = 0
    /\ collectPc' = [collectPc EXCEPT ![p] = "returned"]
    /\ n' = ReceiverAfter(n)
    /\ UNCHANGED << maxRequests, vendor, next, wg, taskPc, resp, ch >>

\* The registry is done with the pass's samples: the request is answered
Finish(p) ==
    /\ collectPc[p] = "returned"
    /\ collectPc' = [collectPc EXCEPT ![p] = "idle"]
    /\ next' = [next EXCEPT ![p] = 1]
    /\ wg' = [wg EXCEPT ![p] = 0]
    /\ taskPc' = [taskPc EXCEPT ![p] = [m \in DOMAIN taskPc[p] |-> "idle"]]
    /\ resp' = [resp EXCEPT ![p] = [m \in DOMAIN resp[p] |-> NoOutcome]]
    /\ ch' = [ch EXCEPT ![p] = EmptyBag]
    /\ UNCHANGED << n, maxRequests, vendor >>

(***************************************************************************)
(* The goroutine of one metric: collect, and scrape inside it.             *)
(***************************************************************************)
\* Mutant: the goroutines of a pass share one err variable, so that collect
\* sees the failure of any scrape of the pass that has returned.
TaskErrShared(p, m) ==
    IF \E m2 \in DOMAIN resp[p] :
          /\ taskPc[p][m2] \notin {"idle", "scrape", "send"}
          /\ scrapeResult(resp[p][m2]).err # Nil
    THEN "failed" ELSE Nil

\* err := n.scrape(metric, ch), as collect sees it
TaskErr(p, m) == scrapeResult(resp[p][m]).err

\* Mutant: collect returns at once when scrape fails, sending nothing.
AfterRequestReturnOnError(err) == IF err # Nil THEN "wgDone" ELSE "sendValue"

\* where the goroutine goes after the request: scrape's send of the value,
\* or, scrape having returned an error, collect's send of the duration
AfterRequest(err) == IF err # Nil THEN "sendDuration" ELSE "sendValue"

\* Mutant: success is reported whatever scrape returned.
SuccessAlways(err) == 1

\* if err != nil { success = 0 } else { success = 1 }
Success(err) == IF err # Nil THEN 0 ELSE 1

Send(p, sample) == ch' = [ch EXCEPT ![p] = @ (+) SetToBag({sample})]

\* collect's begin := time.Now() and scrape up to request.SetBufferBody: the
\* request is built and encoded, and scrape returns an error if either fails;
\* otherwise the goroutine goes on to request.Send
BuildRequest(p, m) ==
    /\ taskPc[p][m] = "scrape"
    /\ \E built \in Built(vendor) :
         /\ resp' = [resp EXCEPT ![p][m] = built]
         /\ taskPc' = [taskPc EXCEPT ![p][m] =
                          IF built = NoOutcome THEN "send"
                          ELSE AfterRequest(scrapeResult(built).err)]
    /\ UNCHANGED << n, maxRequests, vendor, collectPc, next, wg, ch >>

\* request.Send(context.Background()) returns, after the goroutine has waited
\* for the vendor with its request in flight, and scrape goes on to the end
\* of its loop over the data points
Scrape(p, m) ==
    /\ taskPc[p][m] = "send"
    /\ \E outcome \in Outcomes(vendor) :
         /\ resp' = [resp EXCEPT ![p][m] = outcome]
         /\ taskPc' = [taskPc EXCEPT ![p][m] = AfterRequest(scrapeResult(outcome).err)]
    /\ UNCHANGED << n, maxRequests, vendor, collectPc, next, wg, ch >>

\* ch <- MustNewConstMetric(metric.Desc, GaugeValue, latestVal, instance, region)
SendValue(p, m) ==
    /\ taskPc[p][m] = "sendValue"
    /\ \E i \in 1..Len(metrics) :
         /\ metrics[i].Name = m
         /\ Send(p, MustNewConstMetric(metrics[i].Desc, scrapeResult(resp[p][m]).latestVal,
                                       << n.nasInstanceIdentifier, n.region >>))
    /\ taskPc' = [taskPc EXCEPT ![p][m] = "sendDuration"]
    /\ UNCHANGED << n, maxRequests, vendor, collectPc, next, wg, resp >>

\* ch <- MustNewConstMetric(scrapeDurationDesc, GaugeValue, duration.Seconds(), metric.Name)
\* (the elapsed time is not modelled: every duration sample carries 0)
SendDuration(p, m) ==
    /\ taskPc[p][m] = "sendDuration"
    /\ Send(p, MustNewConstMetric(scrapeDurationDesc, 0, << m >>))
    /\ taskPc' = [taskPc EXCEPT ![p][m] = "sendSuccess"]
    /\ UNCHANGED << n, maxRequests, vendor, collectPc, next, wg, resp >>

\* ch <- MustNewConstMetric(scrapeSuccessDesc, GaugeValue, success, metric.Name)
SendSuccess(p, m) ==
    /\ taskPc[p][m] = "sendSuccess"
    /\ Send(p, MustNewConstMetric(scrapeSuccessDesc, Success(TaskErr(p, m)), << m >>))
    /\ taskPc' = [taskPc EXCEPT ![p][m] = "wgDone"]
    /\ UNCHANGED << n, maxRequests, vendor, collectPc, next, wg, resp >>

\* wg.Done()
WgDone(p, m) ==
    /\ taskPc[p][m] = "wgDone"
    /\ wg' = [wg EXCEPT ![p] = @ - 1]
    /\ taskPc' = [taskPc EXCEPT ![p][m] = "done"]
    /\ UNCHANGED << n, maxRequests, vendor, collectPc, next, resp, ch >>

\* go func(metric Metric) { n.collect(metric, ch); wg.Done() }(m): its steps
Task(p, m) ==
    \/ BuildRequest(p, m)
    \/ Scrape(p, m)
    \/ SendValue(p, m)
    \/ SendDuration(p, m)
    \/ SendSuccess(p, m)
    \/ WgDone(p, m)

Next ==
    \/ \E p \in Passes : CollectStart(p)
    \/ \E p \in Passes : Spawn(p)
    \/ \E p \in Passes : WgWait(p)
    \/ \E p \in Passes : Finish(p)
    \/ \E p \in Passes : \E m \in DOMAIN taskPc[p] : BuildRequest(p, m)
    \/ \E p \in Passes : \E m \in DOMAIN taskPc[p] : Scrape(p, m)
    \/ \E p \in Passes : \E m \in DOMAIN taskPc[p] : SendValue(p, m)
    \/ \E p \in Passes : \E m \in DOMAIN taskPc[p] : SendDuration(p, m)
    \/ \E p \in Passes : \E m \in DOMAIN taskPc[p] : SendSuccess(p, m)
    \/ \E p \in Passes : \E m \in DOMAIN taskPc[p] : WgDone(p, m)

Spec == Init /\ [][Next]_vars

\* The scheduling of a pass: the Go scheduler runs every runnable goroutine,
\* the vendor request of every goroutine returns, and the registry receives
\* from the channel for as long as the pass runs.  Nothing makes the registry
\* start a pass or finish with one.
Fairness ==
    \A p \in Passes :
        /\ WF_vars(Spawn(p))
        /\ WF_vars(WgWait(p))
        /\ \A m \in Names(SubSeq(metrics, 1, NumMetrics)) : WF_vars(Task(p, m))

FairSpec == Init /\ [][Next]_vars /\ Fairness

(***************************************************************************)
(* Overlapping passes: web.max-requests lets both passes be in flight.     *)
(***************************************************************************)
InitPasses ==
    /\ n = NewNASCollector("nas01", "jp-east-1", NumMetrics)
    /\ maxRequests = Cardinality(Passes)
    /\ vendor = "data or none"
    /\ Idle(Names(n.metrics))

SpecPasses == InitPasses /\ [][Next]_vars

(***************************************************************************)
(* scrape on every response: a collector of one metric, one pass at a      *)
(* time, and a vendor that answers with any list of up to MaxPoints data   *)
(* points or fails.                                                        *)
(***************************************************************************)
InitScrape ==
    /\ n = NewNASCollector("nas01", "jp-east-1", 1)
    /\ maxRequests = 1
    /\ vendor = "any response"
    /\ Idle(Names(n.metrics))

SpecScrape == InitScrape /\ [][Next]_vars

(***************************************************************************)
(* What a pass has put on its channel.                                     *)
(***************************************************************************)
Returned(p) == collectPc[p] = "returned"

\* the goroutine of m in pass p has its request behind it: it failed to
\* build it, or request.Send has returned
Requested(p, m) == taskPc[p][m] \notin {"idle", "scrape", "send"}


\* the goroutine of m in pass p is past scrape
Scraped(p, m) == taskPc[p][m] \in {"sendDuration", "sendSuccess", "wgDone", "done"}

DescOf(name) == metrics[CHOOSE i \in 1..Len(metrics) : metrics[i].Name = name].Desc

RECURSIVE Copies(_, _)
Copies(B, S) ==
    IF S = {} THEN 0
    ELSE LET s == CHOOSE x \in S : TRUE IN CopiesIn(s, B) + Copies(B, S \ {s})

\* how many samples of descriptor desc pass p has sent, and how many of them
\* with the given labels, and with the given labels and value
CountDesc(p, desc) ==
    Copies(ch[p], { s \in BagToSet(ch[p]) : s.desc = desc })
CountLabelled(p, desc, labels) ==
    Copies(ch[p], { s \in BagToSet(ch[p]) : s.desc = desc /\ s.labels = labels })
CountValued(p, desc, labels, value) ==
    CopiesIn(MustNewConstMetric(desc, value, labels), ch[p])

\* the samples of pass p that are about metric name: its value samples and
\* the meta samples labelled with it, as a bag
SamplesAbout(p, name) ==
    LET about == { s \in BagToSet(ch[p]) :
                     \/ s.desc = DescOf(name)
                     \/ /\ s.desc \in {scrapeDurationDesc, scrapeSuccessDesc}
                        /\ s.labels = << name >> }
    IN [s \in about |-> CopiesIn(s, ch[p])]

\* the same without the durations
ValuesAndSuccesses(p) ==
    LET kept == { s \in BagToSet(ch[p]) : s.desc # scrapeDurationDesc }
    IN [s \in kept |-> CopiesIn(s, ch[p])]

(***************************************************************************)
(* C1.  When a pass has returned, its channel has received exactly one     *)
(* duration sample and exactly one success sample for each metric of the   *)
(* collector's list, labelled with the metric's name, and no duration or   *)
(* success sample under any other label.                                   *)
(***************************************************************************)
C1_MetaNamesAreTheMetricList ==
    \A p \in Passes :
        Returned(p) =>
            \A desc \in {scrapeDurationDesc, scrapeSuccessDesc} :
                /\ \A name \in Names(n.metrics) : CountLabelled(p, desc, << name >>) = 1
                /\ CountDesc(p, desc) = Len(n.metrics)

\* a pass has returned in which one metric failed and another succeeded
C1_Witness ==
    \E p \in Passes :
        /\ Returned(p)
        /\ \E a, b \in Names(n.metrics) :
             /\ scrapeResult(resp[p][a]).err # Nil
             /\ scrapeResult(resp[p][b]).err = Nil

(***************************************************************************)
(* C2.  Collect returns only when every goroutine of the pass has ended,   *)
(* and nothing is sent on the channel of a pass that has returned.         *)
(***************************************************************************)
C2_Barrier ==
    /\ [](\A p \in Passes : Returned(p) => \A m \in DOMAIN taskPc[p] : taskPc[p][m] = "done")
    /\ [][\A p \in Passes : (Returned(p) /\ Returned(p)') => ch'[p] = ch[p]]_vars

\* a pass has returned with samples of every metric on its channel
C2_Witness ==
    \E p \in Passes :
        /\ Returned(p)
        /\ \A name \in Names(n.metrics) : CountLabelled(p, scrapeSuccessDesc, << name >>) = 1

(***************************************************************************)
(* C7.  When a pass has returned, every metric has at most one value       *)
(* sample, labelled with the instance identifier and the region; it has    *)
(* one exactly when its success sample is 1; and a metric whose scrape     *)
(* returned an error, whatever the error, has success 0 and no value.      *)
(***************************************************************************)
C7_ValueIffSuccess ==
    \A p \in Passes :
        Returned(p) =>
            \A name \in Names(n.metrics) :
                LET v == CountDesc(p, DescOf(name))
                    vl == CountLabelled(p, DescOf(name), << n.nasInstanceIdentifier, n.region >>)
                    s1 == CountValued(p, scrapeSuccessDesc, << name >>, 1)
                    s0 == CountValued(p, scrapeSuccessDesc, << name >>, 0)
                IN /\ v = vl
                   /\ v <= 1
                   /\ (v = 1) <=> (s1 = 1)
                   /\ (v = 0) <=> (s0 = 1)
                   /\ scrapeResult(resp[p][name]).err # Nil => (s0 = 1 /\ s1 = 0 /\ v = 0)

\* a pass has returned in which one metric's response could not be parsed
\* and another metric's value was sent
C7_Witness ==
    \E p \in Passes :
        /\ Returned(p)
        /\ \E a, b \in Names(n.metrics) :
             /\ scrapeResult(resp[p][a]).err = "could not parse sum"
             /\ CountDesc(p, DescOf(b)) = 1

(***************************************************************************)
(* C8.  Two passes that have returned and whose requests had the same      *)
(* outcome for every metric but one, B, have sent the same samples about   *)
(* every other metric A: the same value sample or none, and the same       *)
(* success sample.                                                         *)
(***************************************************************************)
C8_Isolation ==
    \A p, q \in Passes :
        (Returned(p) /\ Returned(q)) =>
            \A B \in Names(n.metrics) :
                (\A A \in Names(n.metrics) \ {B} : resp[p][A] = resp[q][A]) =>
                    \A A \in Names(n.metrics) \ {B} : SamplesAbout(p, A) = SamplesAbout(q, A)

\* two passes have returned; B failed in one and succeeded in the other, and
\* another metric A, with the same response in both, sent its value in both
C8_Witness ==
    \E p, q \in Passes : \E A, B \in Names(n.metrics) :
        /\ Returned(p) /\ Returned(q)
        /\ A # B
        /\ \A X \in Names(n.metrics) \ {B} : resp[p][X] = resp[q][X]
        /\ scrapeResult(resp[p][B]).err # Nil
        /\ scrapeResult(resp[q][B]).err = Nil
        /\ CountDesc(p, DescOf(A)) = 1
        /\ CountDesc(q, DescOf(A)) = 1

(***************************************************************************)
(* C9.  Two passes that have returned, one after the other or overlapping, *)
(* and whose requests had the same outcome for every metric have sent the  *)
(* same value samples and the same success samples; and no step of a pass  *)
(* changes the collector the passes read.                                  *)
(***************************************************************************)
C9_Idempotent ==
    /\ [](\A p, q \in Passes :
            (/\ Returned(p) /\ Returned(q)
             /\ \A m \in DOMAIN resp[p] :
                    (Requested(p, m) /\ Requested(q, m)) => resp[p][m] = resp[q][m])
            => ValuesAndSuccesses(p) = ValuesAndSuccesses(q))
    /\ [][n' = n]_vars

\* two passes have returned on the same outcomes, a failure and a success
C9_Witness ==
    \E p, q \in Passes : \E a, b \in Names(n.metrics) :
        /\ p # q
        /\ Returned(p) /\ Returned(q)
        /\ \A m \in Names(n.metrics) : resp[p][m] = resp[q][m]
        /\ scrapeResult(resp[p][a]).err # Nil
        /\ CountDesc(p, DescOf(b)) = 1

(***************************************************************************)
(* C10.  Under the scheduling of FairSpec a pass that Collect has started  *)
(* returns: the goroutines' sends and the wait on the wait group cannot    *)
(* block one another for ever.                                             *)
(***************************************************************************)
C10_PassReturns ==
    \A p \in Passes : (collectPc[p] = "spawn") ~> Returned(p)

\* a pass has returned after all its goroutines sent their samples
C10_Witness ==
    \E p \in Passes :
        /\ Returned(p)
        /\ wg[p] = 0
        /\ CountDesc(p, scrapeDurationDesc) = Len(n.metrics)

(***************************************************************************)
(* The claims about scrape speak of the response's data points.            *)
(***************************************************************************)
MalformedTimestamp(dp) == dp.Timestamp = "2020-01-01 00:03:00"
MalformedSum(dp) == dp.Sum = "1O"
WellFormed(dps) ==
    \A i \in 1..Len(dps) : ~MalformedTimestamp(dps[i]) /\ ~MalformedSum(dps[i])

Instant(dp) == ParseTime(dp.Timestamp).val
SumOf(dp) == ParseFloat(dp.Sum).val

\* the places of the data points with the greatest timestamp
Greatest(dps) ==
    { i \in 1..Len(dps) : \A j \in 1..Len(dps) : Instant(dps[j]) <= Instant(dps[i]) }
First(S) == CHOOSE i \in S : \A j \in S : i <= j
Last(S) == CHOOSE i \in S : \A j \in S : j <= i

\* the goroutine of m in pass p got a response with data points
GotPoints(p, m) ==
    Requested(p, m) /\ resp[p][m].kind = "Response" /\ Len(resp[p][m].Datapoints) > 0

InstanceLabels == << n.nasInstanceIdentifier, n.region >>

\* scrape of m in pass p has sent exactly one value sample, and it is v
SentValue(p, m, v) ==
    /\ CountDesc(p, DescOf(m)) = 1
    /\ CountValued(p, DescOf(m), InstanceLabels, v) = 1

\* scrape of m in pass p returned an error: no value is or will be sent,
\* and once collect has sent the success sample it is 0
ScrapeFailed(p, m) ==
    /\ Scraped(p, m)
    /\ CountDesc(p, DescOf(m)) = 0
    /\ taskPc[p][m] \in {"wgDone", "done"} =>
          /\ CountValued(p, scrapeSuccessDesc, << m >>, 0) = 1
          /\ CountValued(p, scrapeSuccessDesc, << m >>, 1) = 0

(***************************************************************************)
(* C3, as claimed.  For a response with data points, all of them           *)
(* well-formed, scrape sends the sum of a data point with the greatest     *)
(* timestamp of the response.                                              *)
(***************************************************************************)
C3_LatestPointWins ==
    \A p \in Passes : \A m \in DOMAIN taskPc[p] :
        (GotPoints(p, m) /\ WellFormed(resp[p][m].Datapoints)) =>
            LET dps == resp[p][m].Datapoints IN
            \/ taskPc[p][m] = "sendValue"
            \/ \E i \in Greatest(dps) : SentValue(p, m, SumOf(dps[i]))

(***************************************************************************)
(* C4, as claimed, on the responses whose greatest timestamp is not before *)
(* the zero time (where C3's divergence plays no part).  When scrape has   *)
(* sent a value and two or more data points share the greatest timestamp,  *)
(* the value is the sum of the first of them in response order.            *)
(***************************************************************************)
C4_FirstOfEqualWins ==
    \A p \in Passes : \A m \in DOMAIN taskPc[p] :
        LET dps == resp[p][m].Datapoints IN
        (/\ GotPoints(p, m)
         /\ CountDesc(p, DescOf(m)) = 1
         /\ Cardinality(Greatest(dps)) >= 2
         /\ ~Before(Instant(dps[First(Greatest(dps))]), ZeroTime))
        => SentValue(p, m, SumOf(dps[First(Greatest(dps))]))

(***************************************************************************)
(* C4, amended.  When scrape has sent a value and two or more data points  *)
(* share the greatest timestamp, the value is the sum of the last of them  *)
(* in response order; unless that timestamp is before the zero time, when  *)
(* no data point is selected and the value is 0.                           *)
(***************************************************************************)
C4_LastOfEqualWins ==
    \A p \in Passes : \A m \in DOMAIN taskPc[p] :
        LET dps == resp[p][m].Datapoints IN
        (/\ GotPoints(p, m)
         /\ CountDesc(p, DescOf(m)) = 1
         /\ Cardinality(Greatest(dps)) >= 2)
        => IF Before(Instant(dps[Last(Greatest(dps))]), ZeroTime)
           THEN SentValue(p, m, 0)
           ELSE SentValue(p, m, SumOf(dps[Last(Greatest(dps))]))

\* scrape has sent a value for a response in which the first and the last
\* data point of the greatest timestamp have different sums
C4_Witness ==
    \E p \in Passes : \E m \in DOMAIN taskPc[p] :
        LET dps == resp[p][m].Datapoints IN
        /\ GotPoints(p, m)
        /\ CountDesc(p, DescOf(m)) = 1
        /\ Cardinality(Greatest(dps)) >= 2
        /\ ~Before(Instant(dps[Last(Greatest(dps))]), ZeroTime)
        /\ SumOf(dps[First(Greatest(dps))]) # SumOf(dps[Last(Greatest(dps))])
        /\ dps[First(Greatest(dps))].Timestamp # dps[Last(Greatest(dps))].Timestamp

(***************************************************************************)
(* C5, as claimed, on the responses none of whose timestamps is before the *)
(* zero time (where C3's divergence plays no part).  If any data point of  *)
(* the response has a malformed timestamp or a malformed sum, scrape       *)
(* returns an error, sends no value, and the success sample is 0.          *)
(***************************************************************************)
C5_AnyMalformedPointFails ==
    \A p \in Passes : \A m \in DOMAIN taskPc[p] :
        LET dps == resp[p][m].Datapoints IN
        (/\ GotPoints(p, m)
         /\ \E i \in 1..Len(dps) : MalformedTimestamp(dps[i]) \/ MalformedSum(dps[i])
         /\ \A i \in 1..Len(dps) :
               MalformedTimestamp(dps[i]) \/ ~Before(Instant(dps[i]), ZeroTime))
        => ScrapeFailed(p, m)

\* scrape reads the sum of data point i: the timestamps up to i are
\* well-formed, and that of i is before neither the zero time nor the
\* timestamp of an earlier data point
ReadsSum(dps, i) ==
    /\ \A j \in 1..i : ~MalformedTimestamp(dps[j])
    /\ ~Before(Instant(dps[i]), ZeroTime)
    /\ \A j \in 1..(i - 1) : ~Before(Instant(dps[i]), Instant(dps[j]))

(***************************************************************************)
(* C5, amended.  If any data point of the response has a malformed         *)
(* timestamp, or a malformed sum that scrape reads, scrape returns an      *)
(* error, sends no value, and the success sample is 0.  A malformed sum of *)
(* a data point that scrape skips is not read and fails nothing: if that   *)
(* is all that is malformed, scrape sends a value.                         *)
(***************************************************************************)
C5_MalformedPointReadFails ==
    \A p \in Passes : \A m \in DOMAIN taskPc[p] :
        LET dps == resp[p][m].Datapoints IN
        GotPoints(p, m) =>
            IF \E i \in 1..Len(dps) :
                  MalformedTimestamp(dps[i]) \/ (ReadsSum(dps, i) /\ MalformedSum(dps[i]))
            THEN ScrapeFailed(p, m)
            ELSE taskPc[p][m] = "sendValue" \/ CountDesc(p, DescOf(m)) = 1

\* a goroutine has ended with success 0 on a response whose first data
\* point is well-formed and whose last has a malformed timestamp
C5_Witness ==
    \E p \in Passes : \E m \in DOMAIN taskPc[p] :
        LET dps == resp[p][m].Datapoints IN
        /\ GotPoints(p, m)
        /\ taskPc[p][m] = "done"
        /\ Len(dps) >= 2
        /\ ~MalformedTimestamp(dps[1]) /\ ~MalformedSum(dps[1])
        /\ MalformedTimestamp(dps[Len(dps)])
        /\ CountValued(p, scrapeSuccessDesc, << m >>, 0) = 1

(***************************************************************************)
(* C6.  For a response without data points scrape returns an error and     *)
(* sends no value, and the success sample is 0.                            *)
(***************************************************************************)
C6_NoDataFails ==
    \A p \in Passes : \A m \in DOMAIN taskPc[p] :
        (Requested(p, m) /\ resp[p][m] = Response(<< >>)) =>
            /\ TaskErr(p, m) = "fetched no datapoints"
            /\ ScrapeFailed(p, m)

\* a goroutine has ended with success 0 on a response without data points
C6_Witness ==
    \E p \in Passes : \E m \in DOMAIN taskPc[p] :
        /\ resp[p][m] = Response(<< >>)
        /\ taskPc[p][m] = "done"
        /\ CountValued(p, scrapeSuccessDesc, << m >>, 0) = 1
====
